---- MODULE Spec2Model ----
(***************************************************************************)
(* A model of package align (align.go): the two-pass column aligner.       *)
(* Strings are sequences of one-character strings; a Go map is a function  *)
(* with a finite domain; the Align struct's fields are the variables.      *)
(*                                                                         *)
(* Scope: one Align() run per Align value; OutputSep, UpdatePadding and    *)
(* FilterColumns are called before the run. The padder is the default      *)
(* fieldPad (a bytes.Buffer); the output stays below bufio.Writer's buffer *)
(* size, so bytes reach the underlying writer at Flush only. Input is      *)
(* single-width ASCII, for which runewidth.StringWidth(s) = len(s).        *)
(***************************************************************************)
EXTENDS Integers, Sequences, FiniteSets, TLC

\* Longest input stream (in bytes) handed to NewAlign.
MaxInput == 4

\* Largest field text, filler and surrounding pad handed to applyPadding on its own.
MaxWord == 2
MaxFill == 4
MaxSurround == 2

\* Justification values (align.go:18-22); 0 is the zero value of the byte type.
JustifyRight == 1
JustifyCenter == 2
JustifyLeft == 3

padchar == " "
newline == "\n"

\* The separator and the qualifier string given to NewAlign.
Sep == <<",">>
Qual == <<"q">>
\* The alternative output separator given to OutputSep.
AltSep == <<"|">>

\* Bytes the input stream is made of.
Chars == {"a", ",", "q", newline}

Inputs == UNION {[1..n -> Chars] : n \in 0..MaxInput}

Justifications == 0..3
Overrides == {<<>>, (2 :> JustifyRight)}
Pads == {-1, 1}
PaddingOptsSet == [Justification : Justifications, ColumnOverride : Overrides, Pad : Pads]
Filters == {<<>>, <<2>>, <<1, 3>>}

VARIABLES
    pc,            \* position of the Align() call: Idle, Measuring, Rendering, Done
    scanner,       \* bytes the bufio.Scanner has not consumed yet
    writer,        \* bytes buffered in the bufio.Writer
    out,           \* bytes that reached the underlying io.Writer
    sepOut, columnCounts, txtq, padOpts, filter, filterLen, lines,
    lineIdx,       \* position of export's range loop over lines (1-based)
    visited,       \* per scanned line, the number of fields columnLength walked
    rendered,      \* the lines export has rendered so far, in the order it did
    row            \* the words and the write operations of the line rendered last

vars == <<pc, scanner, writer, out, sepOut, columnCounts, txtq, padOpts, filter,
          filterLen, lines, lineIdx, visited, rendered, row>>

----------------------------------------------------------------------------
\* Go string and map primitives.

\* s[lo:hi]
Slice(s, lo, hi) == SubSeq(s, lo + 1, hi)

\* strings.HasPrefix
HasPrefix(s, p) == Len(s) >= Len(p) /\ SubSeq(s, 1, Len(p)) = p

\* strings.Index: 0-based index of the first occurrence of sub in s, or -1.
Index(s, sub) ==
    LET hits == {i \in 0..(Len(s) - Len(sub)) : SubSeq(s, i + 1, i + Len(sub)) = sub}
    IN  IF hits = {} THEN -1 ELSE CHOOSE i \in hits : \A j \in hits : i <= j

\* strings.Split for a non-empty separator.
RECURSIVE Split(_, _)
Split(s, sp) ==
    LET i == Index(s, sp)
    IN  IF i = -1 THEN <<s>>
        ELSE <<Slice(s, 0, i)>> \o Split(Slice(s, i + Len(sp), Len(s)), sp)

\* m[k] of a map[int]int: the zero value when the key is missing.
Lookup(m, k) == IF k \in DOMAIN m THEN m[k] ELSE 0

\* m[k] = v
Store(m, k, v) == [x \in (DOMAIN m) \cup {k} |-> IF x = k THEN v ELSE m[x]]

EmptyMap == <<>>

\* bufio.ScanLines: the next line of the stream and what is left after it.
ScanMore(s) == s # <<>>

ScanToken(s) ==
    LET i == Index(s, <<newline>>)
    IN  IF i = -1 THEN [text |-> s, rest |-> <<>>]
        ELSE [text |-> Slice(s, 0, i), rest |-> Slice(s, i + 1, Len(s))]

----------------------------------------------------------------------------
\* The tokenizer.

genFieldLen(s, sp, qual) ==
    IF qual = <<>> \/ ~HasPrefix(s, qual)
    THEN LET i == Index(s, sp) IN IF i = -1 THEN Len(s) ELSE i
    ELSE LET i == Index(s, qual \o sp) IN IF i = -1 THEN Len(s) ELSE i + Len(qual)

fieldLen(s, sp) == genFieldLen(s, sp, <<>>)

fieldLenEscaped(s, sp, qual) == genFieldLen(s, sp, qual)

RECURSIVE splitLoop(_, _, _, _)
splitLoop(s, sp, qual, start) ==
    IF start >= Len(s) THEN <<>>
    ELSE LET count == genFieldLen(Slice(s, start, Len(s)), sp, qual)
         IN  <<Slice(s, start, start + count)>> \o splitLoop(s, sp, qual, start + count + Len(sp))

splitWithQual(on, s, sp, qual) ==
    IF ~on THEN Split(s, sp) ELSE splitLoop(s, sp, qual, 0)

----------------------------------------------------------------------------
\* The measurement pass.

\* A faulty update: the width of the field seen last replaces the maximum.
updateCountLast(counts, columnNum, temp) == Store(counts, columnNum, temp)

\* if temp > a.columnCounts[columnNum] { a.columnCounts[columnNum] = temp }
updateCount(counts, columnNum, temp) ==
    IF temp > Lookup(counts, columnNum) THEN Store(counts, columnNum, temp) ELSE counts

\* The inner loop of columnLength over one line.
RECURSIVE walkLine(_, _, _, _, _)
walkLine(q, line, start, columnNum, counts) ==
    IF start >= Len(line) THEN [counts |-> counts, fields |-> columnNum]
    ELSE LET rest == Slice(line, start, Len(line))
             temp == IF q.On THEN fieldLenEscaped(rest, Sep, q.Qualifier)
                     ELSE fieldLen(rest, Sep)
         IN  walkLine(q, line, start + temp + Len(Sep), columnNum + 1,
                      updateCount(counts, columnNum, temp))

columnSize(counts, num) == IF num \notin DOMAIN counts THEN -1 ELSE counts[num]

----------------------------------------------------------------------------
\* The padding renderer.

\* runewidth.StringWidth on single-width ASCII text.
StringWidth(s) == Len(s)

countPadding(s, count) ==
    LET padLength == count - Len(s)
        rCount == StringWidth(s)
        wordLen == Len(s)
    IN  IF rCount < wordLen THEN padLength + (wordLen - rCount) ELSE padLength

WriteString(padder, s) == padder \o s

RECURSIVE fillWithPadding(_, _)
fillWithPadding(padder, length) ==
    IF length <= 0 THEN padder ELSE fillWithPadding(Append(padder, padchar), length - 1)

\* A faulty renderer: Center puts the smaller half of the filler in front.
applyPaddingFlipped(padder, original, surroundingPad, columnNum, padLength, just) ==
    LET b1 == IF Len(surroundingPad) > 0 /\ columnNum > 0
              THEN WriteString(padder, surroundingPad) ELSE padder
        b2 == CASE just = JustifyLeft ->
                     fillWithPadding(WriteString(b1, original), padLength)
                [] just = JustifyRight ->
                     WriteString(fillWithPadding(b1, padLength), original)
                [] just = JustifyCenter ->
                     IF padLength > 2
                     THEN fillWithPadding(
                              WriteString(fillWithPadding(b1, padLength \div 2), original),
                              padLength - (padLength \div 2))
                     ELSE fillWithPadding(WriteString(b1, original), padLength)
                [] OTHER -> b1
    IN  IF Len(surroundingPad) > 0 THEN WriteString(b2, surroundingPad) ELSE b2

applyPadding(padder, original, surroundingPad, columnNum, padLength, just) ==
    LET b1 == IF Len(surroundingPad) > 0 /\ columnNum > 0
              THEN WriteString(padder, surroundingPad) ELSE padder
        b2 == CASE just = JustifyLeft ->
                     fillWithPadding(WriteString(b1, original), padLength)
                [] just = JustifyRight ->
                     WriteString(fillWithPadding(b1, padLength), original)
                [] just = JustifyCenter ->
                     IF padLength > 2
                     THEN fillWithPadding(
                              WriteString(fillWithPadding(b1, padLength - (padLength \div 2)),
                                          original),
                              padLength \div 2)
                     ELSE fillWithPadding(WriteString(b1, original), padLength)
                [] OTHER -> b1
    IN  IF Len(surroundingPad) > 0 THEN WriteString(b2, surroundingPad) ELSE b2

\* padder.Reset()
Reset(padder) == <<>>

----------------------------------------------------------------------------
\* The render pass.

contains(nums, num) == \E i \in 1..Len(nums) : nums[i] = num

\* A faulty lookup: the override map is read with the 0-based column index.
justificationOfZeroBased(opts, columnNum) ==
    IF columnNum \in DOMAIN opts.ColumnOverride
    THEN opts.ColumnOverride[columnNum] ELSE opts.Justification

\* The justification of 0-based column columnNum.
justificationOf(opts, columnNum) ==
    LET hits == {k \in DOMAIN opts.ColumnOverride : k = columnNum + 1}
    IN  IF Cardinality(DOMAIN opts.ColumnOverride) > 0 /\ hits # {}
        THEN opts.ColumnOverride[CHOOSE k \in hits : TRUE]
        ELSE opts.Justification

surroundingPadOf(pad) == [i \in 1..pad |-> padchar]

\* Whether export ends the row after the field it has just padded.
lastField(flt, fltLen, columnNum, paddedWord) ==
    (fltLen > 0 /\ flt[fltLen] = columnNum) \/ columnNum = Len(paddedWord)

WriteOp(op, col, temp, word, just, pad, bytes) ==
    [op |-> op, col |-> col, temp |-> temp, word |-> word, just |-> just,
     pad |-> pad, bytes |-> bytes]

\* The loop of export over the words of one line, as the write operations it
\* issues; padder is the padding buffer at the top of the iteration.
RECURSIVE exportWords(_, _, _, _)
exportWords(words, columnNum, tempColumn, padder) ==
    IF columnNum >= Len(words) THEN <<>>
    ELSE LET word == words[columnNum + 1] IN
         IF filterLen > 0 /\ ~contains(filter, columnNum + 1)
         THEN (IF columnNum + 1 = Len(words)
               THEN <<WriteOp("nl", columnNum, tempColumn, <<>>, 0, 0, <<newline>>)>>
               ELSE <<>>)
              \o exportWords(words, columnNum + 1, tempColumn, padder)
         ELSE LET j == justificationOf(padOpts, columnNum)
                  padLength == countPadding(word, Lookup(columnCounts, columnNum))
                  paddedWord == applyPadding(padder, word, surroundingPadOf(padOpts.Pad),
                                             tempColumn, padLength, j)
                  field == WriteOp("field", columnNum, tempColumn, word, j, padLength,
                                   paddedWord)
              IN  IF lastField(filter, filterLen, columnNum + 1, paddedWord)
                  THEN <<field, WriteOp("nl", columnNum, tempColumn, <<>>, 0, 0, <<newline>>)>>
                  ELSE <<field, WriteOp("sep", columnNum, tempColumn, <<>>, 0, 0, sepOut)>>
                       \o exportWords(words, columnNum + 1, tempColumn + 1, Reset(paddedWord))

RECURSIVE bytesOf(_)
bytesOf(ops) == IF ops = <<>> THEN <<>> ELSE Head(ops).bytes \o bytesOf(Tail(ops))

NoRow == [line |-> 0, words |-> <<>>, ops |-> <<>>]

----------------------------------------------------------------------------
\* NewAlign(in, out, Sep, qu)
Init ==
    /\ pc = "Idle"
    /\ scanner \in Inputs
    /\ writer = <<>>
    /\ out = <<>>
    /\ sepOut = Sep
    /\ columnCounts = EmptyMap
    /\ txtq \in [On : BOOLEAN, Qualifier : {Qual}]
    /\ padOpts = [Justification |-> JustifyLeft, ColumnOverride |-> EmptyMap, Pad |-> 1]
    /\ filter = <<>>
    /\ filterLen = 0
    /\ lines = <<>>
    /\ lineIdx = 0
    /\ visited = <<>>
    /\ rendered = <<>>
    /\ row = NoRow

OutputSep ==
    /\ pc = "Idle"
    /\ sepOut' = AltSep
    /\ UNCHANGED <<pc, scanner, writer, out, columnCounts, txtq, padOpts, filter,
                   filterLen, lines, lineIdx, visited, rendered, row>>

UpdatePadding ==
    /\ pc = "Idle"
    /\ \E p \in PaddingOptsSet : padOpts' = p
    /\ UNCHANGED <<pc, scanner, writer, out, sepOut, columnCounts, txtq, filter,
                   filterLen, lines, lineIdx, visited, rendered, row>>

FilterColumns ==
    /\ pc = "Idle"
    /\ \E c \in Filters : filter' = c /\ filterLen' = Len(c)
    /\ UNCHANGED <<pc, scanner, writer, out, sepOut, columnCounts, txtq, padOpts,
                   lines, lineIdx, visited, rendered, row>>

\* Align() is entered: columnLength starts with an empty line buffer.
AlignCall ==
    /\ pc = "Idle"
    /\ pc' = "Measuring"
    /\ lines' = <<>>
    /\ UNCHANGED <<scanner, writer, out, sepOut, columnCounts, txtq, padOpts, filter,
                   filterLen, lineIdx, visited, rendered, row>>

\* One iteration of columnLength's scan loop.
ScanLine ==
    /\ pc = "Measuring"
    /\ ScanMore(scanner)
    /\ LET tok == ScanToken(scanner)
           w == walkLine(txtq, tok.text, 0, 0, columnCounts)
       IN  /\ scanner' = tok.rest
           /\ columnCounts' = w.counts
           /\ lines' = Append(lines, tok.text)
           /\ visited' = Append(visited, w.fields)
    /\ UNCHANGED <<pc, writer, out, sepOut, txtq, padOpts, filter, filterLen, lineIdx, rendered, row>>

\* A faulty orchestrator: export starts without waiting for the end of the input.
ExportStartEarly ==
    /\ pc = "Measuring"
    /\ pc' = "Rendering"
    /\ padOpts' = [padOpts EXCEPT !.Pad = IF @ < 0 THEN 0 ELSE @]
    /\ lineIdx' = 1
    /\ UNCHANGED <<scanner, writer, out, sepOut, columnCounts, txtq, filter, filterLen,
                   lines, visited, rendered, row>>

\* Scan() returns false; export starts by clamping the pad.
ExportStart ==
    /\ pc = "Measuring"
    /\ ~ScanMore(scanner)
    /\ pc' = "Rendering"
    /\ padOpts' = [padOpts EXCEPT !.Pad = IF @ < 0 THEN 0 ELSE @]
    /\ lineIdx' = 1
    /\ UNCHANGED <<scanner, writer, out, sepOut, columnCounts, txtq, filter, filterLen,
                   lines, visited, rendered, row>>

\* One iteration of export's loop over the lines.
ExportLine ==
    /\ pc = "Rendering"
    /\ lineIdx <= Len(lines)
    /\ LET words == splitWithQual(txtq.On, lines[lineIdx], Sep, txtq.Qualifier)
           ops == exportWords(words, 0, 0, <<>>)
       IN  /\ row' = [line |-> lineIdx, words |-> words, ops |-> ops]
           /\ writer' = writer \o bytesOf(ops)
    /\ rendered' = Append(rendered, lines[lineIdx])
    /\ lineIdx' = lineIdx + 1
    /\ UNCHANGED <<pc, scanner, out, sepOut, columnCounts, txtq, padOpts, filter,
                   filterLen, lines, visited>>

\* a.writer.Flush() at the end of export.
Flush ==
    /\ pc = "Rendering"
    /\ lineIdx > Len(lines)
    /\ out' = out \o writer
    /\ writer' = <<>>
    /\ pc' = "Done"
    /\ UNCHANGED <<scanner, sepOut, columnCounts, txtq, padOpts, filter, filterLen,
                   lines, lineIdx, visited, rendered, row>>

Next ==
    \/ OutputSep
    \/ UpdatePadding
    \/ FilterColumns
    \/ AlignCall
    \/ ScanLine
    \/ ExportStart
    \/ ExportLine
    \/ Flush

Spec == Init /\ [][Next]_vars

----------------------------------------------------------------------------
\* applyPadding on its own: one call per step on an empty (reset) padder, for
\* every field text, filler length, surrounding pad, column and justification.

Words == UNION {[1..n -> {"a", ","}] : n \in 0..MaxWord}

InitPad ==
    /\ pc = "Rendering"
    /\ scanner = <<>>
    /\ writer = <<>>
    /\ out = <<>>
    /\ sepOut = Sep
    /\ columnCounts = EmptyMap
    /\ txtq = [On |-> FALSE, Qualifier |-> Qual]
    /\ padOpts = [Justification |-> JustifyLeft, ColumnOverride |-> EmptyMap, Pad |-> 1]
    /\ filter = <<>>
    /\ filterLen = 0
    /\ lines = <<>>
    /\ lineIdx = 1
    /\ visited = <<>>
    /\ rendered = <<>>
    /\ row = NoRow

PadField ==
    \E word \in Words, pad \in 0..MaxSurround, tempColumn \in 0..1,
       padLength \in 0..MaxFill, just \in Justifications :
        /\ padOpts' = [padOpts EXCEPT !.Pad = pad, !.Justification = just]
        /\ row' = [line |-> 1, words |-> <<word>>,
                   ops |-> <<WriteOp("field", tempColumn, tempColumn, word, just, padLength,
                                     applyPadding(<<>>, word, surroundingPadOf(pad),
                                                  tempColumn, padLength, just))>>]
        /\ UNCHANGED <<pc, scanner, writer, out, sepOut, columnCounts, txtq, filter,
                       filterLen, lines, lineIdx, visited, rendered>>

NextPad == PadField

SpecPad == InitPad /\ [][NextPad]_vars

----------------------------------------------------------------------------
\* Vocabulary of the claims.

Spaces(n) == [i \in 1..n |-> padchar]

FieldOps == {i \in 1..Len(row.ops) : row.ops[i].op = "field"}

\* The write operations of a row that emits the 0-based columns cols of words.
RowShape(ops, words, cols) ==
    LET m == Len(cols) IN
    IF m = 0 THEN Len(ops) = 1 /\ ops[1].op = "nl"
    ELSE /\ Len(ops) = 2 * m
         /\ \A i \in 1..m :
              /\ ops[2 * i - 1].op = "field"
              /\ ops[2 * i - 1].col = cols[i]
              /\ ops[2 * i - 1].word = words[cols[i] + 1]
              /\ ops[2 * i].op = IF i = m THEN "nl" ELSE "sep"

KeptColumns(flt, n) == SelectSeq(flt, LAMBDA c : c <= n)

\* The column widths of the lines read so far, per field of the split.
FieldsAt(c) ==
    {splitWithQual(txtq.On, lines[l], Sep, txtq.Qualifier)[c + 1] :
        l \in {k \in 1..Len(lines) :
                 c < Len(splitWithQual(txtq.On, lines[k], Sep, txtq.Qualifier))}}
MaxLen(fs) == CHOOSE n \in {Len(f) : f \in fs} : \A f \in fs : Len(f) <= n

CountSep(s) == Cardinality({i \in 0..(Len(s) - Len(Sep)) : Slice(s, i, i + Len(Sep)) = Sep})
Occurs(s, sub) == Index(s, sub) # -1
EndsWith(s, sub) == Len(s) >= Len(sub) /\ Slice(s, Len(s) - Len(sub), Len(s)) = sub

\* 0-based positions at which a qualifier closes the qualified text opening s.
Closers(s) ==
    {j \in Len(Qual)..(Len(s) - Len(Qual)) :
        /\ Slice(s, j, j + Len(Qual)) = Qual
        /\ \/ j + Len(Qual) = Len(s)
           \/ HasPrefix(Slice(s, j + Len(Qual), Len(s)), Sep)}
FirstCloser(s) == CHOOSE j \in Closers(s) : \A k \in Closers(s) : j <= k

----------------------------------------------------------------------------
\* C1: with no column filter, a rendered row is the line's fields in order,
\* the output separator between consecutive fields only, and exactly one
\* newline right after the last field.
C1_RowTerminated ==
    (row.line > 0 /\ filterLen = 0) =>
        RowShape(row.ops, row.words, [i \in 1..Len(row.words) |-> i - 1])

\* C2: for Left, Right and Center a rendered field at column c is
\* columnCounts[c] + Pad bytes long when it is the first emitted field of its
\* row and columnCounts[c] + 2*Pad otherwise, and its pad length is not negative.
C2_FieldWidth ==
    \A i \in FieldOps :
        LET o == row.ops[i] IN
        o.just \in {JustifyLeft, JustifyRight, JustifyCenter} =>
            /\ o.pad >= 0
            /\ Len(o.bytes) = Lookup(columnCounts, o.col)
                                + (IF o.temp = 0 THEN padOpts.Pad ELSE 2 * padOpts.Pad)

C2_Witness ==
    \E i \in FieldOps :
        /\ row.ops[i].just \in {JustifyLeft, JustifyRight, JustifyCenter}
        /\ row.ops[i].temp > 0
        /\ row.ops[i].pad > 0
        /\ Len(lines) > 1

\* C3: once columnLength has read every line, each column at which some line
\* has a field is a key of columnCounts holding the longest such field, and
\* columnSize returns -1 exactly for the columns at which no line has a field.
C3_WidthTable ==
    pc \in {"Rendering", "Done"} =>
        \A c \in 0..MaxInput :
            /\ FieldsAt(c) # {} =>
                 c \in DOMAIN columnCounts /\ columnCounts[c] = MaxLen(FieldsAt(c))
            /\ columnSize(columnCounts, c) = -1 <=> FieldsAt(c) = {}

\* C4: with the qualifier on, a line that opens with the qualifier and has a
\* closing qualifier followed by the separator or the end of the line yields
\* the whole qualified text, both qualifiers included, as its first field.
C4_QualifierContainment ==
    (row.line > 0 /\ txtq.On /\ HasPrefix(lines[row.line], Qual)
       /\ Closers(lines[row.line]) # {}) =>
        /\ Len(row.words) > 0
        /\ row.words[1] = Slice(lines[row.line], 0, FirstCloser(lines[row.line]) + Len(Qual))

\* C5: with an ascending filter F, a rendered row is the fields at the columns
\* of F that the line has, in order, the output separator between them only,
\* and exactly one newline ending the row.
C5_FilteredRow ==
    (row.line > 0 /\ filterLen > 0) =>
        LET kept == KeptColumns(filter, Len(row.words))
        IN  RowShape(row.ops, row.words, [i \in 1..Len(kept) |-> kept[i] - 1])

\* C6: for a pad length p >= 0, applyPadding returns the surrounding pad
\* (unless the field is the first emitted one), the justified body, and the
\* surrounding pad; the body is w then p spaces for Left, p spaces then w for
\* Right, and for Center p - p/2 spaces, w, p/2 spaces when p > 2 and the Left
\* body otherwise.
C6_Rendering ==
    \A i \in FieldOps :
        LET o == row.ops[i]
            s == Spaces(padOpts.Pad)
            p == o.pad
            body == IF o.just = JustifyRight THEN Spaces(p) \o o.word
                    ELSE IF o.just = JustifyCenter /\ p > 2
                         THEN Spaces(p - (p \div 2)) \o o.word \o Spaces(p \div 2)
                         ELSE o.word \o Spaces(p)
        IN  (o.just \in {JustifyLeft, JustifyRight, JustifyCenter} /\ p >= 0) =>
                o.bytes = (IF o.temp = 0 THEN <<>> ELSE s) \o body \o s

C6_Witness ==
    \E i \in FieldOps :
        /\ row.ops[i].just = JustifyCenter
        /\ row.ops[i].pad > 2
        /\ row.ops[i].word # <<>>
        /\ padOpts.Pad > 0

\* C7: the split of a line without a separator is the line alone, the split of
\* a line ending in a separator ends in an empty field, a line with k
\* separators and no qualifier has k + 1 fields, and columnLength walks as
\* many fields of the line as the split yields.
C7_SplitShape ==
    row.line > 0 =>
        LET s == lines[row.line] IN
        /\ ~Occurs(s, Sep) => row.words = <<s>>
        /\ EndsWith(s, Sep) => Len(row.words) > 0 /\ row.words[Len(row.words)] = <<>>
        /\ ~Occurs(s, Qual) => Len(row.words) = CountSep(s) + 1
        /\ visited[row.line] = Len(row.words)

\* C8 as stated: the justification of a rendered field at 0-based column c
\* is ColumnOverride[c] when the map has the key c, and the default otherwise.
C8_OverrideZeroBased ==
    \A i \in FieldOps :
        LET o == row.ops[i] IN
        o.just = IF o.col \in DOMAIN padOpts.ColumnOverride
                 THEN padOpts.ColumnOverride[o.col] ELSE padOpts.Justification

\* C8 as amended: the justification of a rendered field at 0-based column c of
\* its input line is ColumnOverride[c + 1] when the map has the key c + 1 (the
\* 1-based column number), and the default otherwise, filter or no filter.
C8_OverrideOneBased ==
    \A i \in FieldOps :
        LET o == row.ops[i] IN
        o.just = IF o.col + 1 \in DOMAIN padOpts.ColumnOverride
                 THEN padOpts.ColumnOverride[o.col + 1] ELSE padOpts.Justification

C8_Witness ==
    \E i \in FieldOps :
        LET o == row.ops[i] IN
        /\ o.col + 1 \in DOMAIN padOpts.ColumnOverride
        /\ padOpts.ColumnOverride[o.col + 1] # padOpts.Justification
        /\ o.temp # o.col
        /\ filterLen > 0

\* C9: nothing is written before the scanner is exhausted, the lines are
\* rendered once each in input order, and the run ends with the writer flushed
\* after the last line.
C9_TwoPass ==
    /\ pc \in {"Idle", "Measuring"} => writer = <<>> /\ out = <<>> /\ rendered = <<>>
    /\ pc \in {"Rendering", "Done"} => scanner = <<>>
    /\ rendered = SubSeq(lines, 1, Len(rendered))
    /\ pc = "Done" => rendered = lines /\ writer = <<>> /\ row.line = Len(lines)

C9_Witness ==
    /\ pc = "Done"
    /\ Len(lines) > 1
    /\ Len(out) > 2

\* C10: whatever the justification value, the bytes of a rendered field are
\* spaces, the field text, spaces.
C10_TextKept ==
    \A i \in FieldOps :
        LET o == row.ops[i] IN
        \E a \in 0..Len(o.bytes) : \E b \in 0..Len(o.bytes) :
            o.bytes = Spaces(a) \o o.word \o Spaces(b)

====
